---- MODULE Spec2Model ----
(***************************************************************************)
(* Model of the book recommendation backend: enhanced_app.py (artifact     *)
(* store, recommenders and their HTTP handlers) and app.py (CSV catalog    *)
(* and its search handler).                                                *)
(*                                                                         *)
(* Similarities are integers in hundredths (0.1 is 10, 1.0 is 100); an     *)
(* accumulated score rating * similarity is therefore in hundredths too.   *)
(* Text is a sequence of one-character strings.                            *)
(***************************************************************************)
EXTENDS Integers, Sequences, FiniteSets, TLC

VARIABLES models, is_loaded, books, started, req, resp

vars == <<models, is_loaded, books, started, req, resp>>

(***************************************************************************)
(* Bounds of the model.                                                    *)
(***************************************************************************)
MaxPopular == 3
MaxQueryLen == 2

(***************************************************************************)
(* Program constants.                                                      *)
(***************************************************************************)
DefaultCount == 10
NotLoadedStatus == 500
MinCount == 1
MaxCount == 50
SimThreshold == 10
MinGenreRatings == 5
GenreLimit == 20
SearchLimit == 50
AppSearchLimit == 20
AppSampleSize == 10

(***************************************************************************)
(* Universe of identifiers and values the artifacts are drawn from.        *)
(***************************************************************************)
Items == {"A", "B", "C"}
Items4 == Items \cup {"D"}
ItemOrder == <<"A", "B", "C", "D">>
ReqItems == Items4 \cup {"Z"}
MatrixUsers == {1}
ReqUsers == {1, 2, 3}
SimVals == {10, 50, 100}
RatingVals == {-1, 0, 5}
CountVals == {-1, 0, 1, 2, 50, 51}
CountArgs == {<<>>} \cup {<<n>> : n \in CountVals}
Chars == {" ", "h", "H", "a"}

Min(a, b) == IF a < b THEN a ELSE b
Max(a, b) == IF a > b THEN a ELSE b

Range(s) == {s[i] : i \in DOMAIN s}

\* Position of x in the sequence s (0 when absent).
Idx(s, x) == IF x \in Range(s) THEN CHOOSE i \in DOMAIN s : s[i] = x ELSE 0

\* All orderings of the set S, as sequences without repetition.
Perms(S) == {p \in [1..Cardinality(S) -> S] : Range(p) = S}

\* Python's seq[:n] for n >= 0.
PySlice(s, n) == [i \in 1..Min(Max(n, 0), Len(s)) |-> s[i]]

\* Python's seq[1:n+1]: drop the first entry, keep the next n.
PySliceFrom1(s, n) ==
  [i \in 1..Max(Min(n, Len(s) - 1), 0) |-> s[i + 1]]

RECURSIVE SelectSeqBy(_, _)
\* The entries of s whose value is in the set keep, in order.
SelectSeqBy(s, keep) ==
  IF s = <<>> THEN <<>>
  ELSE IF Head(s) \in keep THEN <<Head(s)>> \o SelectSeqBy(Tail(s), keep)
       ELSE SelectSeqBy(Tail(s), keep)

(***************************************************************************)
(* Text helpers: str.lower(), str.strip(), substring containment.          *)
(***************************************************************************)
LowerChar(c) == IF c = "H" THEN "h" ELSE IF c = "A" THEN "a" ELSE c
Lower(s) == [i \in DOMAIN s |-> LowerChar(s[i])]

RECURSIVE LStrip(_)
LStrip(s) == IF s # <<>> /\ Head(s) = " " THEN LStrip(Tail(s)) ELSE s

RECURSIVE RStrip(_)
RStrip(s) ==
  IF s # <<>> /\ s[Len(s)] = " " THEN RStrip(SubSeq(s, 1, Len(s) - 1)) ELSE s

Strip(s) == RStrip(LStrip(s))

\* str.contains(q): q occurs in s as a contiguous substring.
Contains(s, q) ==
  \E i \in 0..(Len(s) - Len(q)) : SubSeq(s, i + 1, i + Len(q)) = q

Queries == UNION {[1..n -> Chars] : n \in 0..MaxQueryLen}

(***************************************************************************)
(* Catalog rows (books_clean / Books.csv).                                 *)
(***************************************************************************)
TitleOf(isbn) ==
  IF isbn = "A" THEN <<"H", "a">>
  ELSE IF isbn = "B" THEN <<"h", " ", "h">>
  ELSE <<"a">>

AuthorOf(isbn) == IF isbn = "C" THEN <<"H">> ELSE <<"a", "a">>

Book(isbn) ==
  [ISBN |-> isbn, Title |-> TitleOf(isbn), Author |-> AuthorOf(isbn),
   Publisher |-> <<"h", "a">>]

FullCatalog == [i \in 1..3 |-> Book(ItemOrder[i])]
CatalogNoB == <<Book("A"), Book("C")>>
Catalogs == {FullCatalog, CatalogNoB}

\* books_clean[books_clean['ISBN'] == isbn] is not empty.
HasBook(catalog, isbn) == \E i \in DOMAIN catalog : catalog[i].ISBN = isbn

(***************************************************************************)
(* Artifact contents the pickles may hold.                                 *)
(***************************************************************************)
\* A symmetric similarity matrix with self-similarity on the diagonal;
\* sim[c][r] is the entry of column c, row r.
MkSim(ab, ac, bc) ==
  [c \in Items |-> [r \in Items |->
     IF c = r THEN 100
     ELSE IF {c, r} = {"A", "B"} THEN ab
     ELSE IF {c, r} = {"A", "C"} THEN ac
     ELSE bc]]

SimMatrices == {MkSim(ab, ac, bc) : ab \in SimVals, ac \in SimVals, bc \in SimVals}

RatingRows == [Items -> RatingVals]
MkMatrix(row) == [u \in MatrixUsers |-> row]

UserToIdxs == {(1 :> 0), (1 :> 0) @@ (2 :> 1)}
IdxToBooks == {(0 :> "A") @@ (1 :> "B") @@ (2 :> "C"),
               (0 :> "A") @@ (1 :> "B") @@ (2 :> "Z")}
UserFactors == << <<1, 0>>, <<0, 1>> >>
ItemFactorss == { << <<3, 1>>, <<2, 2>>, <<1, 3>> >>,
                  << <<1, 1>>, <<1, 1>>, <<2, 0>> >> }

PopEntry(i) == [ISBN |-> ItemOrder[((i - 1) % 3) + 1], Rank |-> i]
PopularTables == {[i \in 1..k |-> PopEntry(i)] : k \in 0..MaxPopular}

\* A four-item similarity matrix, for users with two rated items and two
\* candidates.
MkSim4(ac, ad, bc, bd) ==
  [c \in Items4 |-> [r \in Items4 |->
     IF c = r THEN 100
     ELSE IF {c, r} = {"A", "B"} THEN 50
     ELSE IF {c, r} = {"C", "D"} THEN 10
     ELSE IF {c, r} = {"A", "C"} THEN ac
     ELSE IF {c, r} = {"A", "D"} THEN ad
     ELSE IF {c, r} = {"B", "C"} THEN bc
     ELSE bd]]

SimMatrices4 ==
  {MkSim4(x[1], x[2], x[3], x[4]) : x \in SimVals \X SimVals \X SimVals \X SimVals}

RatingRows4 ==
  {("A" :> 5) @@ ("B" :> b) @@ ("C" :> 0) @@ ("D" :> 0) : b \in RatingVals}

Catalog4 == FullCatalog \o <<Book("D")>>
Catalog4NoC == <<Book("A"), Book("B"), Book("D")>>
Catalogs4 == {Catalog4, Catalog4NoC}

\* A catalog with more rows of one genre than a genre query returns, and a
\* ratings table in which each of them has enough ratings.
BigIsbns == {ToString(i) : i \in 1..(GenreLimit + 1)}
BigCatalog ==
  FullCatalog \o
  [i \in 1..(GenreLimit + 1) |->
     [ISBN |-> ToString(i), Title |-> <<"h">>, Author |-> <<"a">>,
      Publisher |-> <<"h", "a">>]]

\* ratings_filtered, kept per ISBN as the number of its rows and the sum of
\* their Book-Rating values.
MkStats(ca, sa, cb, sb, cc, sc) ==
  ("A" :> [count |-> ca, sum |-> sa]) @@ ("B" :> [count |-> cb, sum |-> sb])
  @@ ("C" :> [count |-> cc, sum |-> sc])
RatingStatss == {MkStats(5, 40, 4, 40, 6, 30), MkStats(6, 30, 5, 45, 0, 0),
                 MkStats(4, 20, 4, 36, 5, 25)}

ModelFiles ==
  <<"books_clean", "ratings_filtered", "user_item_matrix",
    "item_similarity_df", "user_to_idx", "idx_to_user", "book_to_idx",
    "idx_to_book", "svd_model", "user_factors", "item_factors",
    "popular_books">>

File(v) == [status |-> "present", value |-> v]

MkDisk(catalog, stats, row, sim, u2i, i2b, ifac, pop) ==
  ("books_clean" :> File(catalog)) @@ ("ratings_filtered" :> File(stats))
  @@ ("user_item_matrix" :> File(MkMatrix(row)))
  @@ ("item_similarity_df" :> File(sim)) @@ ("user_to_idx" :> File(u2i))
  @@ ("idx_to_user" :> File(DOMAIN u2i))
  @@ ("book_to_idx" :> File({i2b[i] : i \in DOMAIN i2b}))
  @@ ("idx_to_book" :> File(i2b)) @@ ("svd_model" :> File("svd"))
  @@ ("user_factors" :> File(UserFactors)) @@ ("item_factors" :> File(ifac))
  @@ ("popular_books" :> File(pop))

DefaultRow == ("A" :> 5) @@ ("B" :> 0) @@ ("C" :> 0)
DefaultSim == MkSim(50, 10, 100)
DefaultU2I == (1 :> 0)
DefaultI2B == (0 :> "A") @@ (1 :> "B") @@ (2 :> "C")
DefaultIFac == << <<3, 1>>, <<2, 2>>, <<1, 3>> >>
DefaultStats == MkStats(5, 40, 4, 40, 6, 30)
BigStats ==
  DefaultStats @@
  [isbn \in BigIsbns |->
     LET i == CHOOSE k \in 1..(GenreLimit + 1) : ToString(k) = isbn
     IN [count |-> MinGenreRatings + (i % 2), sum |-> 20 + i]]
DefaultPop == [i \in 1..MaxPopular |-> PopEntry(i)]

DefaultDisk ==
  MkDisk(FullCatalog, DefaultStats, DefaultRow, DefaultSim, DefaultU2I,
         DefaultI2B, DefaultIFac, DefaultPop)

\* The model directories the service is started on: every file present with
\* varied similarity / rating / catalog contents, every file present with
\* varied factor / popularity / rating-table contents, the default contents
\* with one file missing or unreadable, four-item similarity and rating
\* matrices, and a large catalog.
DiskImages ==
  {MkDisk(cat, DefaultStats, row, sim, DefaultU2I, DefaultI2B, DefaultIFac,
          DefaultPop) : cat \in Catalogs, row \in RatingRows, sim \in SimMatrices}
  \cup
  {MkDisk(FullCatalog, st, DefaultRow, DefaultSim, x[1], x[2], x[3], pop) :
     st \in RatingStatss, x \in UserToIdxs \X IdxToBooks \X ItemFactorss,
     pop \in PopularTables}
  \cup
  {[DefaultDisk EXCEPT ![n].status = s] :
     n \in Range(ModelFiles), s \in {"missing", "corrupt"}}
  \cup
  {MkDisk(cat, DefaultStats, row, sim, DefaultU2I, DefaultI2B, DefaultIFac,
          DefaultPop) : cat \in Catalogs4, row \in RatingRows4, sim \in SimMatrices4}
  \cup
  {MkDisk(BigCatalog, BigStats, DefaultRow, DefaultSim, DefaultU2I, DefaultI2B,
          DefaultIFac, DefaultPop)}

(***************************************************************************)
(* load_models: load every file that exists, in order; a file that cannot  *)
(* be unpickled aborts the loop and leaves the service not loaded.         *)
(***************************************************************************)
RECURSIVE LoadLoop(_, _, _)
LoadLoop(disk, i, acc) ==
  IF i > Len(ModelFiles) THEN [models |-> acc, is_loaded |-> TRUE]
  ELSE LET name == ModelFiles[i] IN
    IF disk[name].status = "missing" THEN LoadLoop(disk, i + 1, acc)
    ELSE IF disk[name].status = "corrupt"
      THEN [models |-> acc, is_loaded |-> FALSE]
    ELSE LoadLoop(disk, i + 1, acc @@ (name :> disk[name].value))

NoModels == [n \in {} |-> 0]

Has(name) == name \in DOMAIN models

\* The orders in which sort_values may leave equal similarities: every
\* ordering of the labels of the similarity matrix.
TieOrders ==
  Perms(IF Has("item_similarity_df") THEN DOMAIN models["item_similarity_df"]
        ELSE Items)

NoReq == [op |-> "none", isbn |-> "", user |-> 0, count |-> <<>>, q |-> <<>>]

Request(op, isbn, user, count, q) ==
  [op |-> op, isbn |-> isbn, user |-> user, count |-> count, q |-> q]

\* An HTTP response: status code, the "error" string of the body ("" when
\* absent), the list in the body, its "count" field (-1 when absent) and
\* the count handed to the recommender (<<>> when none was computed).
Response(status, error, recs, count, n_recs) ==
  [status |-> status, error |-> error, recs |-> recs, count |-> count,
   n_recs |-> n_recs]

NoResp == Response(0, "", <<>>, -1, <<>>)

Init ==
  /\ models = NoModels
  /\ is_loaded = FALSE
  /\ books = <<>>
  /\ started = "none"
  /\ req = NoReq
  /\ resp = NoResp

LoadModels ==
  /\ started = "none"
  /\ \E disk \in DiskImages :
       LET r == LoadLoop(disk, 1, NoModels) IN
         /\ models' = r.models
         /\ is_loaded' = r.is_loaded
  /\ started' = "enhanced"
  /\ UNCHANGED <<books, req, resp>>

(***************************************************************************)
(* Sorting.                                                                *)
(***************************************************************************)
\* Series.sort_values(ascending=False) of the column col: the labels by
\* descending value.  The default sort kind is not stable, so the order of
\* equal values is any order; tie (an ordering of the labels) picks it.
SortValuesDesc(col, tie) ==
  LET before(y, x) ==
        \/ col[y] > col[x]
        \/ col[y] = col[x] /\ Idx(tie, y) < Idx(tie, x)
      pos(x) == 1 + Cardinality({y \in DOMAIN col : before(y, x)})
  IN [i \in 1..Cardinality(DOMAIN col) |-> CHOOSE x \in DOMAIN col : pos(x) = i]

\* A sort left out: the list stays in insertion order.
StableSortDesc_Mut(d) == d

\* sorted(..., key=score, reverse=True) / list.sort(reverse=True) on a list
\* of [isbn, score] entries: descending by score, stable on equal scores.
StableSortDesc(d) ==
  LET before(j, i) ==
        \/ d[j].score > d[i].score
        \/ d[j].score = d[i].score /\ j < i
      pos(i) == 1 + Cardinality({j \in DOMAIN d : before(j, i)})
  IN [k \in DOMAIN d |-> d[CHOOSE i \in DOMAIN d : pos(i) = k]]

RECURSIVE FormatRecs(_, _)
\* The formatting loop shared by the recommenders: an entry whose ISBN has
\* no row in books_clean is left out.
FormatRecs(entries, catalog) ==
  IF entries = <<>> THEN <<>>
  ELSE IF HasBook(catalog, Head(entries).isbn)
         THEN <<Head(entries)>> \o FormatRecs(Tail(entries), catalog)
       ELSE FormatRecs(Tail(entries), catalog)

Result(error, recs) == [error |-> error, recs |-> recs]

ErrNotLoaded == "Models not loaded"
ErrNotFound == "not found"
ErrNoRatings == "User has not rated any books"
ErrException == "exception"
ErrNoQuery == "Please provide a search query"
ErrDataNotLoaded == "Data not loaded"
ErrBookNotFound == "Book not found"

(***************************************************************************)
(* get_similar_books_api                                                   *)
(***************************************************************************)
\* similar_scores[1:n+1]
SimilarSlice(order, n) == PySliceFrom1(order, n)

get_similar_books_api(isbn, n, tie) ==
  IF ~is_loaded THEN Result(ErrNotLoaded, <<>>)
  ELSE IF ~Has("item_similarity_df") \/ ~Has("books_clean")
    THEN Result(ErrException, <<>>)
  ELSE LET sim == models["item_similarity_df"]
           catalog == models["books_clean"]
       IN IF isbn \notin DOMAIN sim THEN Result(ErrNotFound, <<>>)
          ELSE LET order == SortValuesDesc(sim[isbn], tie)
                   top == SimilarSlice(order, n)
                   entries == [i \in DOMAIN top |->
                                 [isbn |-> top[i], score |-> sim[isbn][top[i]]]]
               IN Result("", FormatRecs(entries, catalog))

(***************************************************************************)
(* get_user_recommendations_api                                            *)
(***************************************************************************)
\* user_ratings[user_ratings > 0]: the positively rated columns, in column
\* order.
RatedBooks(row) == SelectSeqBy(ItemOrder, {i \in DOMAIN row : row[i] > 0})

\* The candidate test of the inner loop.
IsCandidate(c, similarity, rated) == c \notin rated /\ similarity > SimThreshold

\* An accumulation that overwrites the stored score instead of adding to it.
DictAdd_Mut(d, k, v) ==
  IF \E i \in DOMAIN d : d[i].isbn = k
    THEN [i \in DOMAIN d |->
            IF d[i].isbn = k THEN [d[i] EXCEPT !.score = v] ELSE d[i]]
  ELSE Append(d, [isbn |-> k, score |-> v])

\* recommendations[k] += v, or recommendations[k] = v for a new key.
DictAdd(d, k, v) ==
  IF \E i \in DOMAIN d : d[i].isbn = k
    THEN [i \in DOMAIN d |->
            IF d[i].isbn = k THEN [d[i] EXCEPT !.score = @ + v] ELSE d[i]]
  ELSE Append(d, [isbn |-> k, score |-> v])

\* A handler that never takes the "no ratings" exit.
NoPositiveRatings_Mut(rated) == FALSE

\* The test "len(rated_books) == 0".
NoPositiveRatings(rated) == Len(rated) = 0

RECURSIVE InnerLoop(_, _, _, _, _)
\* for sim_book_isbn, similarity in similar_books.items()
InnerLoop(d, order, col, rating, rated) ==
  IF order = <<>> THEN d
  ELSE LET c == Head(order) IN
    InnerLoop(IF IsCandidate(c, col[c], rated)
                THEN DictAdd(d, c, rating * col[c]) ELSE d,
              Tail(order), col, rating, rated)

RECURSIVE OuterLoop(_, _, _, _, _)
\* for book_isbn, rating in rated_books.items()
OuterLoop(d, todo, row, sim, tie) ==
  IF todo = <<>> THEN d
  ELSE LET r == Head(todo) IN
    OuterLoop(IF r \in DOMAIN sim
                THEN InnerLoop(d, SortValuesDesc(sim[r], tie), sim[r], row[r],
                               Range(RatedBooks(row)))
              ELSE d,
              Tail(todo), row, sim, tie)

get_user_recommendations_api(user, n, tie) ==
  IF ~is_loaded THEN Result(ErrNotLoaded, <<>>)
  ELSE IF ~Has("user_item_matrix") \/ ~Has("item_similarity_df")
          \/ ~Has("books_clean")
    THEN Result(ErrException, <<>>)
  ELSE LET matrix == models["user_item_matrix"]
           sim == models["item_similarity_df"]
           catalog == models["books_clean"]
       IN IF user \notin DOMAIN matrix THEN Result(ErrNotFound, <<>>)
          ELSE LET row == matrix[user]
                   rated == RatedBooks(row)
               IN IF NoPositiveRatings(rated) THEN Result(ErrNoRatings, <<>>)
                  ELSE LET d == OuterLoop(<<>>, rated, row, sim, tie)
                           sorted == StableSortDesc(d)
                       IN Result("", FormatRecs(PySlice(sorted, n), catalog))

(***************************************************************************)
(* get_svd_recommendations_api                                             *)
(***************************************************************************)
RECURSIVE Dot(_, _)
Dot(u, v) ==
  IF u = <<>> \/ v = <<>> THEN 0 ELSE Head(u) * Head(v) + Dot(Tail(u), Tail(v))

\* A filter that takes only a positive rating for "rated".
SvdNotRated_Mut(rating) == rating <= 0

\* The test "user_ratings[book_isbn] == 0  # Not rated by user".
SvdNotRated(rating) == rating = 0

RECURSIVE SvdLoop(_, _, _, _, _)
\* for i, predicted_rating in enumerate(predicted_ratings)
SvdLoop(acc, i, predicted, i2b, row) ==
  IF i > Len(predicted) THEN acc
  ELSE LET book == i2b[i - 1] IN
    SvdLoop(IF SvdNotRated(row[book])
              THEN Append(acc, [isbn |-> book, score |-> predicted[i]])
            ELSE acc,
            i + 1, predicted, i2b, row)

get_svd_recommendations_api(user, n) ==
  IF ~is_loaded THEN Result(ErrNotLoaded, <<>>)
  ELSE IF \E a \in {"user_to_idx", "idx_to_book", "user_item_matrix",
                    "user_factors", "item_factors", "books_clean"} : ~Has(a)
    THEN Result(ErrException, <<>>)
  ELSE LET u2i == models["user_to_idx"]
           i2b == models["idx_to_book"]
           matrix == models["user_item_matrix"]
           ufac == models["user_factors"]
           ifac == models["item_factors"]
           catalog == models["books_clean"]
       IN IF user \notin DOMAIN u2i THEN Result(ErrNotFound, <<>>)
          ELSE IF \/ user \notin DOMAIN matrix
                  \/ u2i[user] + 1 \notin DOMAIN ufac
                  \/ \E i \in DOMAIN ifac :
                       \/ (i - 1) \notin DOMAIN i2b
                       \/ i2b[i - 1] \notin DOMAIN matrix[user]
            THEN Result(ErrException, <<>>)
          ELSE LET row == matrix[user]
                   predicted == [i \in DOMAIN ifac |-> Dot(ufac[u2i[user] + 1], ifac[i])]
                   cands == SvdLoop(<<>>, 1, predicted, i2b, row)
                   sorted == StableSortDesc(cands)
               IN Result("", FormatRecs(PySlice(sorted, n), catalog))

(***************************************************************************)
(* HTTP handlers of enhanced_app.py                                        *)
(***************************************************************************)
\* request.args.get('count', 10, type=int)
CountOf(arg) == IF arg = <<>> THEN DefaultCount ELSE arg[1]

\* A clamp whose lower limit is off by one.
ClampCount_Mut(n) == Min(Max(n, MinCount - 1), MaxCount)

\* min(max(n_recs, 1), 50)
ClampCount(n) == Min(Max(n, MinCount), MaxCount)

\* The tail shared by recommend_user, recommend_similar and recommend_svd.
RecommendResponse(result, n) ==
  IF result.error # "" THEN Response(404, result.error, <<>>, -1, <<n>>)
  ELSE Response(200, "", result.recs, Len(result.recs), <<n>>)

\* The service is up and no request is being handled.
Serving == started = "enhanced" /\ req.op = "none"

\* The response is sent; the server is ready for the next request.
Reply ==
  /\ req.op # "none"
  /\ req' = NoReq
  /\ resp' = NoResp
  /\ UNCHANGED <<models, is_loaded, books, started>>

home ==
  /\ Serving
  /\ req' = Request("home", "", 0, <<>>, <<>>)
  /\ resp' = Response(200, "", <<[models_loaded |-> is_loaded]>>, -1, <<>>)
  /\ UNCHANGED <<models, is_loaded, books, started>>

status ==
  /\ Serving
  /\ req' = Request("status", "", 0, <<>>, <<>>)
  /\ resp' =
       IF ~is_loaded THEN Response(500, ErrNotLoaded, <<>>, -1, <<>>)
       ELSE IF ~Has("user_to_idx") \/ ~Has("book_to_idx")
               \/ ~Has("ratings_filtered")
         THEN Response(500, ErrException, <<>>, -1, <<>>)
       ELSE Response(200, "",
                     <<[total_users |-> Cardinality(DOMAIN models["user_to_idx"]),
                        total_books |-> Cardinality(models["book_to_idx"])]>>,
                     -1, <<>>)
  /\ UNCHANGED <<models, is_loaded, books, started>>

recommend_user ==
  /\ Serving
  /\ \E user \in ReqUsers, count \in CountArgs, tie \in TieOrders :
       LET n == ClampCount(CountOf(count)) IN
         /\ req' = Request("user", "", user, count, <<>>)
         /\ resp' = RecommendResponse(get_user_recommendations_api(user, n, tie), n)
  /\ UNCHANGED <<models, is_loaded, books, started>>

recommend_similar ==
  /\ Serving
  /\ \E isbn \in ReqItems, count \in CountArgs, tie \in TieOrders :
       LET n == ClampCount(CountOf(count)) IN
         /\ req' = Request("similar", isbn, 0, count, <<>>)
         /\ resp' = RecommendResponse(get_similar_books_api(isbn, n, tie), n)
  /\ UNCHANGED <<models, is_loaded, books, started>>

recommend_svd ==
  /\ Serving
  /\ \E user \in ReqUsers, count \in CountArgs :
       LET n == ClampCount(CountOf(count)) IN
         /\ req' = Request("svd", "", user, count, <<>>)
         /\ resp' = RecommendResponse(get_svd_recommendations_api(user, n), n)
  /\ UNCHANGED <<models, is_loaded, books, started>>

\* A slice that stops one entry early.
PopularSlice_Mut(table, n) == PySlice(table, n - 1)

\* models['popular_books'][:n_recs]
PopularSlice(table, n) == PySlice(table, n)

\* A handler that retries the load when the service is not loaded.
recommend_popular_Mut ==
  /\ Serving
  /\ \E count \in CountArgs :
       LET n == ClampCount(CountOf(count))
           r == LoadLoop(DefaultDisk, 1, models)
       IN /\ req' = Request("popular", "", 0, count, <<>>)
          /\ IF ~is_loaded
               THEN /\ models' = r.models
                    /\ is_loaded' = TRUE
                    /\ resp' = Response(500, ErrNotLoaded, <<>>, -1, <<>>)
             ELSE /\ UNCHANGED <<models, is_loaded>>
                  /\ resp' =
                       IF ~Has("popular_books")
                         THEN Response(500, ErrException, <<>>, -1, <<n>>)
                       ELSE LET popular_books ==
                                  PopularSlice(models["popular_books"], n)
                            IN Response(200, "", popular_books,
                                        Len(popular_books), <<n>>)
  /\ UNCHANGED <<books, started>>

recommend_popular ==
  /\ Serving
  /\ \E count \in CountArgs :
       LET n == ClampCount(CountOf(count)) IN
         /\ req' = Request("popular", "", 0, count, <<>>)
         /\ resp' =
              IF ~is_loaded THEN Response(500, ErrNotLoaded, <<>>, -1, <<>>)
              ELSE IF ~Has("popular_books")
                THEN Response(500, ErrException, <<>>, -1, <<n>>)
              ELSE LET popular_books == PopularSlice(models["popular_books"], n)
                   IN Response(200, "", popular_books, Len(popular_books), <<n>>)
  /\ UNCHANGED <<models, is_loaded, books, started>>

\* 1000 * ln(n), rounded, for the rating counts of the model.
LnMilli(n) == <<0, 693, 1099, 1386, 1609, 1792, 1946, 2079, 2197, 2303>>[n]

\* ratings_filtered[ratings_filtered['ISBN'] == isbn]
StatsOf(stats, isbn) ==
  IF isbn \in DOMAIN stats THEN stats[isbn] ELSE [count |-> 0, sum |-> 0]

\* A row matches when the lower-cased term occurs in its title, author or
\* publisher.
GenreMatches(book, term) ==
  \/ Contains(Lower(book.Title), term)
  \/ Contains(Lower(book.Author), term)
  \/ Contains(Lower(book.Publisher), term)

\* frame[mask]: the rows that satisfy the mask, in frame order.
GenreRows(catalog, term) ==
  SelectSeq(catalog, LAMBDA book : GenreMatches(book, term))

\* A threshold that is off by one.
EnoughRatings_Mut(count) == count >= MinGenreRatings - 1

\* The test "len(book_ratings) >= 5".
EnoughRatings(count) == count >= MinGenreRatings

RECURSIVE GenreLoop(_, _)
\* for _, book in genre_books.iterrows(): popularity_score is
\* average_rating * log(rating_count + 1), here in thousandths.
GenreLoop(rows, stats) ==
  IF rows = <<>> THEN <<>>
  ELSE LET st == StatsOf(stats, Head(rows).ISBN) IN
    IF EnoughRatings(st.count)
      THEN <<[isbn |-> Head(rows).ISBN, rating_count |-> st.count,
              score |-> (st.sum * LnMilli(st.count + 1)) \div st.count]>>
           \o GenreLoop(Tail(rows), stats)
    ELSE GenreLoop(Tail(rows), stats)

recommend_by_genre ==
  /\ Serving
  /\ \E genre \in Queries \ {<<>>} :
       /\ req' = Request("genre", "", 0, <<>>, genre)
       /\ resp' =
            IF ~is_loaded THEN Response(500, ErrNotLoaded, <<>>, -1, <<>>)
            ELSE IF ~Has("books_clean") \/ ~Has("ratings_filtered")
              THEN Response(500, ErrException, <<>>, -1, <<>>)
            ELSE LET genre_books ==
                       GenreRows(models["books_clean"], Lower(genre))
                 IN IF genre_books = <<>> THEN Response(200, "", <<>>, -1, <<>>)
                    ELSE LET book_stats ==
                               StableSortDesc(GenreLoop(genre_books,
                                                        models["ratings_filtered"]))
                             top == PySlice(book_stats, GenreLimit)
                         IN Response(200, "", top, Len(top), <<>>)
  /\ UNCHANGED <<models, is_loaded, books, started>>

get_book_details ==
  /\ Serving
  /\ \E isbn \in ReqItems :
       /\ req' = Request("book", isbn, 0, <<>>, <<>>)
       /\ resp' =
            IF ~is_loaded THEN Response(500, ErrNotLoaded, <<>>, -1, <<>>)
            ELSE IF ~Has("books_clean") \/ ~Has("ratings_filtered")
              THEN Response(500, ErrException, <<>>, -1, <<>>)
            ELSE IF ~HasBook(models["books_clean"], isbn)
              THEN Response(404, ErrBookNotFound, <<>>, -1, <<>>)
            ELSE Response(200, "",
                          <<[isbn |-> isbn,
                             rating_count |->
                               StatsOf(models["ratings_filtered"], isbn).count]>>,
                          -1, <<>>)
  /\ UNCHANGED <<models, is_loaded, books, started>>

\* The mask of /search: title, author or ISBN contains the query.
SearchMatches(book, query) ==
  \/ Contains(Lower(book.Title), query)
  \/ Contains(Lower(book.Author), query)
  \/ Contains(Lower(<<book.ISBN>>), query)

\* books_clean[mask]
SearchRows(catalog, query) ==
  SelectSeq(catalog, LAMBDA book : SearchMatches(book, query))

RowIsbns(rows) == [i \in DOMAIN rows |-> [isbn |-> rows[i].ISBN]]

search_books ==
  /\ Serving
  /\ \E q \in Queries :
       LET query == Strip(Lower(q)) IN
         /\ req' = Request("search", "", 0, <<>>, q)
         /\ resp' =
              IF ~is_loaded THEN Response(500, ErrNotLoaded, <<>>, -1, <<>>)
              ELSE IF query = <<>> THEN Response(400, ErrNoQuery, <<>>, -1, <<>>)
              ELSE IF ~Has("books_clean")
                THEN Response(500, ErrException, <<>>, -1, <<>>)
              ELSE LET results ==
                         PySlice(SearchRows(models["books_clean"], query),
                                 SearchLimit)
                   IN Response(200, "", RowIsbns(results), Len(results), <<>>)
  /\ UNCHANGED <<models, is_loaded, books, started>>

RECURSIVE RatingsLoop(_, _, _)
\* for isbn, rating in rated_books.items()
RatingsLoop(todo, row, catalog) ==
  IF todo = <<>> THEN <<>>
  ELSE IF HasBook(catalog, Head(todo))
         THEN <<[isbn |-> Head(todo), score |-> row[Head(todo)]]>>
              \o RatingsLoop(Tail(todo), row, catalog)
       ELSE RatingsLoop(Tail(todo), row, catalog)

get_user_ratings ==
  /\ Serving
  /\ \E user \in ReqUsers :
       /\ req' = Request("ratings", "", user, <<>>, <<>>)
       /\ resp' =
            IF ~is_loaded THEN Response(500, ErrNotLoaded, <<>>, -1, <<>>)
            ELSE IF ~Has("user_item_matrix") \/ ~Has("books_clean")
              THEN Response(500, ErrException, <<>>, -1, <<>>)
            ELSE IF user \notin DOMAIN models["user_item_matrix"]
              THEN Response(404, ErrNotFound, <<>>, -1, <<>>)
            ELSE LET row == models["user_item_matrix"][user]
                     ratings_list ==
                       StableSortDesc(RatingsLoop(RatedBooks(row), row,
                                                  models["books_clean"]))
                 IN Response(200, "", ratings_list, Len(ratings_list), <<>>)
  /\ UNCHANGED <<models, is_loaded, books, started>>

get_random_user ==
  /\ Serving
  /\ req' = Request("random-user", "", 0, <<>>, <<>>)
  /\ \/ /\ ~is_loaded
        /\ resp' = Response(500, ErrNotLoaded, <<>>, -1, <<>>)
     \/ /\ is_loaded
        /\ ~Has("user_to_idx")
        /\ resp' = Response(500, ErrException, <<>>, -1, <<>>)
     \/ /\ is_loaded
        /\ Has("user_to_idx")
        /\ \E u \in DOMAIN models["user_to_idx"] :
             resp' = Response(200, "", <<[user_id |-> u]>>, -1, <<>>)
  /\ UNCHANGED <<models, is_loaded, books, started>>

Next ==
  \/ LoadModels
  \/ home
  \/ status
  \/ recommend_user
  \/ recommend_similar
  \/ recommend_svd
  \/ recommend_popular
  \/ recommend_by_genre
  \/ get_book_details
  \/ search_books
  \/ get_user_ratings
  \/ get_random_user
  \/ Reply

Spec == Init /\ [][Next]_vars

(***************************************************************************)
(* app.py: the CSV-backed service.                                         *)
(***************************************************************************)
\* The frames Books.csv may hold; the empty frame is also what a failed
\* read leaves behind.
CsvCatalogs ==
  {SelectSeq(FullCatalog, LAMBDA book : book.ISBN \in S) : S \in SUBSET Items}

LoadData ==
  /\ started = "none"
  /\ \E csv \in CsvCatalogs : books' = csv
  /\ started' = "app"
  /\ UNCHANGED <<models, is_loaded, req, resp>>

AppServing == started = "app" /\ req.op = "none"

app_home ==
  /\ AppServing
  /\ req' = Request("app_home", "", 0, <<>>, <<>>)
  /\ resp' = Response(200, "", <<[data_loaded |-> books # <<>>]>>, -1, <<>>)
  /\ UNCHANGED <<models, is_loaded, books, started>>

get_stats ==
  /\ AppServing
  /\ req' = Request("app_stats", "", 0, <<>>, <<>>)
  /\ resp' =
       IF books = <<>> THEN Response(500, ErrDataNotLoaded, <<>>, -1, <<>>)
       ELSE Response(200, "", <<[total_books |-> Len(books)]>>, -1, <<>>)
  /\ UNCHANGED <<models, is_loaded, books, started>>

get_books ==
  /\ AppServing
  /\ req' = Request("app_books", "", 0, <<>>, <<>>)
  /\ resp' =
       IF books = <<>> THEN Response(500, ErrDataNotLoaded, <<>>, -1, <<>>)
       ELSE Response(200, "", RowIsbns(PySlice(books, AppSampleSize)), -1, <<>>)
  /\ UNCHANGED <<models, is_loaded, books, started>>

get_book ==
  /\ AppServing
  /\ \E isbn \in ReqItems :
       /\ req' = Request("app_book", isbn, 0, <<>>, <<>>)
       /\ resp' =
            IF books = <<>> THEN Response(500, ErrDataNotLoaded, <<>>, -1, <<>>)
            ELSE IF ~HasBook(books, isbn)
              THEN Response(404, ErrBookNotFound, <<>>, -1, <<>>)
            ELSE Response(200, "", <<[isbn |-> isbn]>>, -1, <<>>)
  /\ UNCHANGED <<models, is_loaded, books, started>>

\* The mask of app.py's /search: title or author contains the query.
AppSearchMatches(book, query) ==
  \/ Contains(Lower(book.Title), query)
  \/ Contains(Lower(book.Author), query)

\* books[mask]
AppSearchRows(catalog, query) ==
  SelectSeq(catalog, LAMBDA book : AppSearchMatches(book, query))

\* request.args.get('q', '').lower()
AppQuery(q) == Lower(q)

app_search_books ==
  /\ AppServing
  /\ \E q \in Queries :
       LET query == AppQuery(q) IN
         /\ req' = Request("app_search", "", 0, <<>>, q)
         /\ resp' =
              IF books = <<>> THEN Response(500, ErrDataNotLoaded, <<>>, -1, <<>>)
              ELSE IF query = <<>> THEN Response(400, ErrNoQuery, <<>>, -1, <<>>)
              ELSE LET results == PySlice(AppSearchRows(books, query),
                                          AppSearchLimit)
                   IN Response(200, "", RowIsbns(results), Len(results), <<>>)
  /\ UNCHANGED <<models, is_loaded, books, started>>

NextApp ==
  \/ LoadData
  \/ app_home
  \/ get_stats
  \/ get_books
  \/ get_book
  \/ app_search_books
  \/ Reply

SpecApp == Init /\ [][NextApp]_vars

(***************************************************************************)
(* Properties.                                                             *)
(***************************************************************************)
RecIsbns == {resp.recs[i].isbn : i \in DOMAIN resp.recs}

\* C1: the list returned by the similar-items recommender for item i never
\* contains i itself, whatever the similarity matrix.
C1_SimilarExcludesSelf ==
  (req.op = "similar" /\ resp.status = 200) => req.isbn \notin RecIsbns

\* C2: the list returned by the collaborative recommender for user u never
\* contains an item for which u has a non-zero rating, positive or not.
C2_CollabExcludesRated ==
  (req.op = "user" /\ resp.status = 200) =>
    \A it \in RecIsbns : models["user_item_matrix"][req.user][it] = 0

\* C3: the list returned by the factor recommender for user u never contains
\* an item whose rating by u in the rating matrix is not 0.
C3_SvdExcludesRated ==
  (/\ req.op = "svd"
   /\ Has("user_item_matrix")
   /\ req.user \in DOMAIN models["user_item_matrix"]) =>
    LET row == models["user_item_matrix"][req.user] IN
      \A it \in DOMAIN row : row[it] # 0 => it \notin RecIsbns

C3_Witness ==
  /\ req.op = "svd"
  /\ resp.status = 200
  /\ resp.recs # <<>>
  /\ \E it \in Items : models["user_item_matrix"][req.user][it] < 0
  /\ \E it \in Items : models["user_item_matrix"][req.user][it] > 0

\* C4: the user, similar, svd and popular endpoints hand the recommender the
\* requested count clamped: 0 or a negative count becomes 1, a count above
\* 50 becomes 50, a count in 1..50 is unchanged.
C4_CountClamped ==
  (req.op \in {"user", "similar", "svd", "popular"} /\ req.count # <<>>) =>
    /\ (req.op # "popular" \/ is_loaded) => resp.n_recs # <<>>
    /\ resp.n_recs # <<>> =>
         resp.n_recs[1] = IF req.count[1] <= 0 THEN 1
                          ELSE IF req.count[1] > 50 THEN 50
                          ELSE req.count[1]

C4_Witness ==
  /\ req.op = "popular"
  /\ req.count = <<51>>
  /\ resp.status = 200
  /\ resp.n_recs = <<50>>

\* C5: the popularity recommender returns exactly the first n entries of the
\* popularity table, n being the clamped count; its result is a prefix of the
\* result for every larger count, and the reported count is the number of
\* entries returned.
C5_PopularPrefix ==
  (req.op = "popular" /\ resp.status = 200) =>
    LET table == models["popular_books"]
        n == resp.n_recs[1]
    IN /\ Len(resp.recs) = Min(n, Len(table))
       /\ \A i \in 1..Len(resp.recs) : resp.recs[i] = table[i]
       /\ resp.count = Len(resp.recs)
       /\ \A n2 \in (n + 1)..MaxCount :
            LET larger == PopularSlice(table, n2) IN
              /\ Len(resp.recs) <= Len(larger)
              /\ \A i \in 1..Len(resp.recs) : resp.recs[i] = larger[i]

C5_Witness ==
  /\ req.op = "popular"
  /\ resp.status = 200
  /\ resp.n_recs = <<2>>
  /\ Len(resp.recs) = 2
  /\ Len(models["popular_books"]) > 2

\* C6: when the artifacts are not loaded, the similar-items, collaborative,
\* factor, popularity and genre operations all report the same NotLoaded
\* outcome (the one the popularity operation reports), none a NotFound status.
C6_NotLoadedUniform ==
  (~is_loaded /\ req.op \in {"similar", "user", "svd", "popular", "genre"}) =>
    /\ resp.error = ErrNotLoaded
    /\ resp.status = NotLoadedStatus

\* C7: after load_models, is_loaded is true only if the popular_books table
\* was loaded into the store.
C7_ReadyNeedsPopular ==
  (started = "enhanced" /\ is_loaded) => Has("popular_books")

\* C8: the similar-items recommender skips a candidate without catalog
\* metadata and continues with the next candidates: the result has exactly
\* min(count, number of other items with catalog metadata) entries.
C8_SkipContinues ==
  (req.op = "similar" /\ resp.status = 200) =>
    Len(resp.recs) =
      Min(resp.n_recs[1],
          Cardinality({it \in DOMAIN models["item_similarity_df"] \ {req.isbn} :
                         HasBook(models["books_clean"], it)}))

\* C9: for a user absent from the rating matrix the collaborative
\* recommender reports NotFound and for a present user without a positive
\* rating it reports the distinct NoRatings; neither is ever a successful
\* (empty) list.
C9_UnknownUserNotEmptyList ==
  (req.op = "user" /\ is_loaded /\ Has("user_item_matrix")) =>
    LET matrix == models["user_item_matrix"]
        reads == Has("item_similarity_df") /\ Has("books_clean")
    IN /\ req.user \notin DOMAIN matrix =>
            /\ resp.status = 404
            /\ resp.error # ""
            /\ reads => resp.error = ErrNotFound
       /\ (/\ req.user \in DOMAIN matrix
           /\ \A it \in DOMAIN matrix[req.user] : matrix[req.user][it] <= 0) =>
            /\ resp.status # 200
            /\ resp.error # ""
            /\ reads => resp.error = ErrNoRatings /\ resp.error # ErrNotFound

C9_Witness ==
  /\ req.op = "user"
  /\ is_loaded
  /\ Has("user_item_matrix")
  /\ req.user \in DOMAIN models["user_item_matrix"]
  /\ \A it \in Items : models["user_item_matrix"][req.user][it] <= 0
  /\ \E it \in Items : models["user_item_matrix"][req.user][it] < 0
  /\ resp.error = ErrNoRatings

\* C10: every /search handler reports InvalidArgument for a query that is
\* empty or only whitespace, and never a result list.
C10_BlankQueryRejected ==
  (req.op \in {"search", "app_search"} /\ Strip(req.q) = <<>>) =>
    /\ resp.status # 200
    /\ (IF req.op = "search" THEN is_loaded ELSE books # <<>>) =>
         (resp.status = 400 /\ resp.error = ErrNoQuery)

\* The positively rated items of row that are in the similarity matrix and
\* whose similarity to the candidate c exceeds 0.1.
Contributors(row, sim, c) ==
  {r \in DOMAIN row : row[r] > 0 /\ r \in DOMAIN sim /\ sim[r][c] > 10}

RECURSIVE SumOver(_, _, _, _)
\* The sum of row[r] * sim[r][c] over the items r of the set S.
SumOver(S, row, sim, c) ==
  IF S = {} THEN 0
  ELSE LET r == CHOOSE x \in S : TRUE
       IN row[r] * sim[r][c] + SumOver(S \ {r}, row, sim, c)

\* C11: each entry returned by the collaborative recommender carries the sum
\* of rating * similarity over the user's positively rated items whose
\* similarity to it exceeds 0.1; an item with no such rated item does not
\* appear.  A single rating A=5 with sim(A,B)=0.5 and sim(A,C) at most 0.1
\* yields exactly B with score 2.5.
C11_ScoreIsSum ==
  (req.op = "user" /\ resp.status = 200) =>
    LET row == models["user_item_matrix"][req.user]
        sim == models["item_similarity_df"]
    IN /\ \A i \in DOMAIN resp.recs :
            LET c == resp.recs[i].isbn IN
              /\ Contributors(row, sim, c) # {}
              /\ resp.recs[i].score =
                   SumOver(Contributors(row, sim, c), row, sim, c)
       /\ (/\ row = DefaultRow
           /\ sim["A"]["B"] = 50
           /\ sim["A"]["C"] <= 10
           /\ HasBook(models["books_clean"], "B")) =>
            resp.recs = <<[isbn |-> "B", score |-> 250]>>

C11_Witness ==
  /\ req.op = "user"
  /\ resp.status = 200
  /\ \E i \in DOMAIN resp.recs :
       /\ Cardinality(Contributors(models["user_item_matrix"][req.user],
                                   models["item_similarity_df"],
                                   resp.recs[i].isbn)) = 2
       /\ resp.recs[i].score = 750

\* C12: for an item whose candidates all have catalog metadata, the
\* similar-items recommender returns the count other items of highest
\* similarity, by descending similarity with ties in catalog order, and all
\* other items when count exceeds their number.
C12_TopSimilar ==
  (/\ req.op = "similar"
   /\ resp.status = 200
   /\ \A it \in DOMAIN models["item_similarity_df"] \ {req.isbn} :
        HasBook(models["books_clean"], it)) =>
    LET col == models["item_similarity_df"][req.isbn]
        others == [r \in DOMAIN col \ {req.isbn} |-> col[r]]
        expected == PySlice(SortValuesDesc(others, ItemOrder), resp.n_recs[1])
    IN [i \in DOMAIN resp.recs |-> resp.recs[i].isbn] = expected

\* C13: the list returned by the collaborative recommender is ordered by
\* non-increasing score, also after entries without metadata were dropped.
C13_CollabSorted ==
  (req.op = "user" /\ resp.status = 200) =>
    \A i \in 1..(Len(resp.recs) - 1) :
      resp.recs[i].score >= resp.recs[i + 1].score

\* Two rated items A and B, candidates inserted as C then D, returned as D
\* then C.
C13_Witness ==
  /\ req.op = "user"
  /\ resp.status = 200
  /\ resp.recs = <<[isbn |-> "D", score |-> 750], [isbn |-> "C", score |-> 500]>>
  /\ models["user_item_matrix"][req.user]["B"] > 0
  /\ models["item_similarity_df"]["A"]["C"] = 100
  /\ models["item_similarity_df"]["A"]["D"] = 50

\* C14: every item of a genre result has at least 5 ratings in the ratings
\* table, and the result has at most 20 entries.
C14_GenreMinRatings ==
  (req.op = "genre" /\ resp.status = 200) =>
    /\ \A i \in DOMAIN resp.recs :
         StatsOf(models["ratings_filtered"], resp.recs[i].isbn).count >= 5
    /\ Len(resp.recs) <= 20

\* A query that more than 20 sufficiently rated rows match, together with a
\* matching row that has fewer than 5 ratings.
C14_Witness ==
  /\ req.op = "genre"
  /\ resp.status = 200
  /\ Len(resp.recs) = 20
  /\ \E i \in DOMAIN models["books_clean"] :
       LET book == models["books_clean"][i] IN
         /\ GenreMatches(book, Lower(req.q))
         /\ StatsOf(models["ratings_filtered"], book.ISBN).count < 5
  /\ Cardinality({i \in DOMAIN models["books_clean"] :
        LET book == models["books_clean"][i] IN
          /\ GenreMatches(book, Lower(req.q))
          /\ StatsOf(models["ratings_filtered"], book.ISBN).count >= 5}) > 20

\* C15: every recommender operation answers with a result list or with one
\* of the reasoned outcomes NotLoaded, NotFound, NoRatings, never with a
\* generic failure, whatever the input and the loaded artifact set.
C15_ReasonedOutcome ==
  req.op \in {"similar", "user", "svd", "popular", "genre"} =>
    resp.error \in {"", ErrNotLoaded, ErrNotFound, ErrNoRatings}

\* C16: once the service has started, no step changes the readiness flag or
\* the artifact store, and the service does not start again.
C16_LoadOnce ==
  [][started # "none" =>
       (models' = models /\ is_loaded' = is_loaded /\ started' = started)]_vars

\* A degraded service that has answered a request.
C16_Witness ==
  /\ started = "enhanced"
  /\ ~is_loaded
  /\ req.op = "popular"
  /\ resp.status = NotLoadedStatus

====
